---- MODULE Spec2Model ----
(***************************************************************************)
(* Model of cpc (src/cpc/__init__.py): a command line dispatcher that      *)
(* copies SRC to DST with curl or rsync, optionally extracts the copied    *)
(* archive with atool (names starting with "cpx") and optionally spills    *)
(* single-child directories (names ending with "d").                       *)
(*                                                                         *)
(* Strings are sequences of tokens.  A word token ("http", "h", "a", ".")  *)
(* stands for a run of characters of the class [a-zA-Z0-9_.-]; "@", ":"    *)
(* and "/" stand for themselves.  No two adjacent word tokens of the       *)
(* samples join into one of the words "http", "https" or "ftp".            *)
(* A file name is the token sequence of one path component; a path is a    *)
(* sequence of file names relative to the working directory, <<>> being    *)
(* the working directory itself.                                           *)
(* The file system follows POSIX rename(2) and CPython's shutil; trees     *)
(* hold directories and regular files, no symbolic links.                  *)
(***************************************************************************)
EXTENDS Integers, Sequences, FiniteSets, TLC

VARIABLES
    cmd_name,     \* Path(sys.argv[0]).name, a sequence of characters
    src,          \* args.src
    dst,          \* the local dst of main(): rebound to the temporary path
    arg_dst,      \* args.dst as parsed (history: never rebound)
    tmp_archive,  \* None, or the path tempfile.mktemp() returned
    actual_dest,  \* None, or the real destination kept for the extraction
    pc,           \* position of main()
    exc,          \* the exception propagating out of the try block
    exit_code,    \* exit status of the process, -1 while it runs
    tmp,          \* what exists at the temporary path
    fs,           \* the working directory tree: path -> "dir" or file data
    fs0,          \* fs when handle_spill started (history)
    path,         \* handle_spill: the current path
    spill_dir,    \* handle_spill: path.parent of the destination
    spill_dst,    \* the string handle_spill was called with (history)
    cls_dst,      \* the dst string the classification tested (history)
    renames,      \* handle_spill: rename steps performed (history)
    merges,       \* handle_spill: copytree calls performed (history)
    reason,       \* handle_spill: why the loop ended (history)
    cmds,         \* external commands started, in order (history)
    hist          \* stages run, in order, with their outcome (history)

vars == <<cmd_name, src, dst, arg_dst, tmp_archive, actual_dest, pc, exc,
          exit_code, tmp, fs, fs0, path, spill_dir, spill_dst, cls_dst,
          renames, merges, reason, cmds, hist>>

spillvars == <<fs0, path, spill_dir, spill_dst, renames, merges, reason>>

argvars == <<cmd_name, src, arg_dst>>

----------------------------------------------------------------------------
(* Bounds *)

\* longest chain of nested single-entry directories a tool delivers
MaxChain == 3

\* largest exit code an external command returns
MaxRc == 2

----------------------------------------------------------------------------
(* Inputs *)

None == <<>>

CmdNames ==
    { <<"c","p","c">>, <<"c","p","c","d">>, <<"c","p","x">>, <<"c","p","x","d">> }

DefaultDst == <<".", "/">>

TmpPath == <<"/", "tmp", "/", "tmpx">>

SrcSamples ==
    { <<"http", ":", "/", "/", "h", "/", "a">>,
      <<"ftp", ":", "/", "/", "h">>,
      <<"file", ":", "/", "a">>,
      <<"h", ":", "/", "a">>,
      <<"h", "@", "h", ":", "a">>,
      <<"h", ":">>,
      <<"/", "a">>,
      <<"a">> }

DstSamples == { DefaultDst, <<"a">>, <<"h", ":", "a">> }

WordTok == {"http", "https", "ftp", "file", "h", "a", "b", ".", "tmp", "tmpx"}

UrlSchemes == {"http", "https", "ftp"}

NameA == <<"a">>

NameB == <<"b">>

Names == {NameA, NameB}

----------------------------------------------------------------------------
(* Classifier *)

\* the index of the first ":" of s, 0 when there is none
FirstColon(s) ==
    IF \E i \in 1..Len(s) : s[i] = ":"
    THEN CHOOSE i \in 1..Len(s) : s[i] = ":" /\ \A j \in 1..(i-1) : s[j] # ":"
    ELSE 0

\* urlparse(s).scheme: the text before the first ":" when it is a word that
\* starts with a letter; "" otherwise
UrlScheme(s) ==
    IF FirstColon(s) = 2 /\ s[1] \in WordTok \ {"."} THEN s[1] ELSE ""

is_url(s) == UrlScheme(s) \in UrlSchemes

AllWords(s, i, j) == i <= j /\ \A n \in i..j : s[n] \in WordTok

\* re.match(r'^(?:[a-zA-Z0-9_.-]+@)?[a-zA-Z0-9_.-]+:.+', s)
is_remote_path(s) ==
    \/ \E i \in 1..Len(s) :
          /\ AllWords(s, 1, i)
          /\ Len(s) >= i + 2
          /\ s[i+1] = ":"
    \/ \E i \in 1..Len(s) : \E j \in (i+2)..Len(s) :
          /\ AllWords(s, 1, i)
          /\ s[i+1] = "@"
          /\ AllWords(s, i+2, j)
          /\ Len(s) >= j + 2
          /\ s[j+1] = ":"

----------------------------------------------------------------------------
(* Invocation name *)

StartsWith(s, p) == Len(s) >= Len(p) /\ SubSeq(s, 1, Len(p)) = p

EndsWith(s, p) == Len(s) >= Len(p) /\ SubSeq(s, Len(s) - Len(p) + 1, Len(s)) = p

should_extract == StartsWith(cmd_name, <<"c","p","x">>)

should_dig == EndsWith(cmd_name, <<"d">>)

----------------------------------------------------------------------------
(* Paths (pathlib) *)

\* the "/"-separated components of s from token i on, cur being the
\* component under construction
RECURSIVE Parts(_, _, _)
Parts(s, i, cur) ==
    IF i > Len(s)
    THEN IF cur = <<>> THEN <<>> ELSE <<cur>>
    ELSE IF s[i] = "/"
         THEN (IF cur = <<>> THEN <<>> ELSE <<cur>>) \o Parts(s, i + 1, <<>>)
         ELSE Parts(s, i + 1, Append(cur, s[i]))

\* Path(s) of a relative s: empty and "." components are dropped
PathOf(s) == SelectSeq(Parts(s, 1, <<>>), LAMBDA c : c # <<".">>)

\* Path.parent: the parent of Path('.') is Path('.')
Parent(p) == IF p = <<>> THEN <<>> ELSE SubSeq(p, 1, Len(p) - 1)

\* Path.name
BaseName(p) == p[Len(p)]

\* q is p or lies below p
Under(q, p) == Len(q) >= Len(p) /\ SubSeq(q, 1, Len(p)) = p

Rest(q, p) == SubSeq(q, Len(p) + 1, Len(q))

----------------------------------------------------------------------------
(* File system *)

Exists(f, p) == p \in DOMAIN f

IsDir(f, p) == p \in DOMAIN f /\ f[p] = "dir"

IsFileAt(f, p) == p \in DOMAIN f /\ f[p] # "dir"

\* Path.iterdir
Children(f, p) == {q \in DOMAIN f : Len(q) = Len(p) + 1 /\ Under(q, p)}

\* the tree f with the subtree at p replaced by the tree t (t is rooted at
\* <<>>; an empty t leaves nothing at p)
Install(f, p, t) ==
    LET keep == {q \in DOMAIN f : ~Under(q, p)}
        new  == {p \o r : r \in DOMAIN t}
    IN  [q \in keep \cup new |-> IF q \in new THEN t[Rest(q, p)] ELSE f[q]]

\* os.rename(s, d) by rename(2). s exists. The result is the new tree and
\* whether OSError was raised
os_rename(f, s, d) ==
    LET moved == [q \in {x \in DOMAIN f : ~Under(x, s) /\ ~Under(x, d)}
                        \cup {d \o Rest(x, s) : x \in {y \in DOMAIN f : Under(y, s)}}
                    |-> IF Under(q, d) THEN f[s \o Rest(q, d)] ELSE f[q]]
    IN  IF s = d THEN [fs |-> f, err |-> FALSE]
        ELSE IF ~Exists(f, d) THEN [fs |-> moved, err |-> FALSE]
        ELSE IF IsDir(f, s)
             THEN IF IsDir(f, d) /\ Children(f, d) = {}
                  THEN [fs |-> moved, err |-> FALSE]
                  ELSE [fs |-> f, err |-> TRUE]
             ELSE IF IsDir(f, d)
                  THEN [fs |-> f, err |-> TRUE]
                  ELSE [fs |-> moved, err |-> FALSE]

\* shutil.copy2(s, d): into d when d is a directory; SameFileError and
\* IsADirectoryError are OSErrors
copy2(f, s, d) ==
    LET t == IF IsDir(f, d) THEN Append(d, BaseName(s)) ELSE d
    IN  IF t = s \/ IsDir(f, t)
        THEN [fs |-> f, err |-> TRUE]
        ELSE [fs |-> [q \in DOMAIN f \cup {t} |-> IF q = t THEN f[s] ELSE f[q]],
              err |-> FALSE]

\* os.makedirs(d, exist_ok=True) of a path whose parent exists
makedirs(f, d) ==
    IF Exists(f, d)
    THEN [fs |-> f, err |-> ~IsDir(f, d)]
    ELSE [fs |-> [q \in DOMAIN f \cup {d} |-> IF q = d THEN "dir" ELSE f[q]],
          err |-> FALSE]

\* shutil.copytree(s, d, dirs_exist_ok=True): the entries of s are listed
\* first and copied in the order scandir gave them, which is any order; an
\* error of one entry is collected and the others are still copied. The set
\* of possible results
RECURSIVE copytree(_, _, _)
RECURSIVE CopyEntries(_, _, _, _)
copytree(f, s, d) ==
    LET entries == Children(f, s)
        made    == makedirs(f, d)
    IN  IF made.err THEN {made} ELSE CopyEntries(made.fs, s, d, entries)

CopyEntries(f, s, d, todo) ==
    IF todo = {} THEN {[fs |-> f, err |-> FALSE]}
    ELSE UNION { LET t     == Append(d, BaseName(e))
                     first == IF IsDir(f, e) THEN copytree(f, e, t)
                              ELSE IF Exists(f, e) THEN {copy2(f, e, t)}
                              ELSE {[fs |-> f, err |-> TRUE]}
                 IN  UNION { { [fs |-> r2.fs, err |-> r1.err \/ r2.err]
                               : r2 \in CopyEntries(r1.fs, s, d, todo \ {e}) }
                             : r1 \in first }
               : e \in todo }

----------------------------------------------------------------------------
(* What the copy and extraction tools can leave at a destination *)

\* sequences of names of length n
RECURSIVE NameSeqs(_)
NameSeqs(n) ==
    IF n = 0 THEN {<<>>}
    ELSE {Append(c, x) : c \in NameSeqs(n - 1), x \in Names}

Chains == UNION {NameSeqs(n) : n \in 0..MaxChain}

Prefixes(c) == {SubSeq(c, 1, n) : n \in 0..Len(c)}

\* the content of the directory a chain ends in: per name nothing, a file,
\* an empty directory or a directory holding one file
EntryKinds == {"absent", "file", "emptydir", "fulldir"}

EndDirs == [Names -> EntryKinds]

\* the tree (rooted at <<>>) of chain c ending in a directory with content e
ChainTree(c, e, data) ==
    LET tops  == {Append(c, x) : x \in {y \in Names : e[y] # "absent"}}
        below == {Append(Append(c, x), NameA) : x \in {y \in Names : e[y] = "fulldir"}}
    IN  [q \in Prefixes(c) \cup tops \cup below |->
            IF q \in Prefixes(c) THEN "dir"
            ELSE IF q \in below THEN data
            ELSE IF e[BaseName(q)] = "file" THEN data ELSE "dir"]

\* the tree of chain c ending in a regular file
ChainFile(c, data) ==
    [q \in Prefixes(c) |-> IF q = c THEN data ELSE "dir"]

\* nothing at all
NoTree == [q \in {} |-> "dir"]

Delivered ==
    {ChainTree(c, e, "new") : c \in Chains, e \in EndDirs}
        \cup {ChainFile(c, "new") : c \in Chains}
        \cup {NoTree}

\* the working directory before the run: entries left by earlier work
InitialTrees ==
    {ChainTree(<<>>, e, "old") : e \in {x \in EndDirs : x[NameA] = "absent"}}

TmpKinds == {"none", "file", "dir", "special"}

----------------------------------------------------------------------------
(* Exceptions and exit status *)

NoExc == [kind |-> "none", code |-> 0]

SystemExit(c) == [kind |-> "SystemExit", code |-> c]

\* an exception other than SystemExit (OSError, shutil.Error)
Raised == [kind |-> "Exception", code |-> 1]

\* the exit status of the interpreter when main() ends with exception e
ExitStatus(e) == IF e.kind = "none" THEN 0 ELSE e.code

\* faulty variant of execute_command: the failure of the command is swallowed
execute_command_swallow(rc) == NoExc

\* execute_command: what subprocess.run(check=True) of a command that
\* exits with rc makes it raise
execute_command(rc) == IF rc = 0 THEN NoExc ELSE SystemExit(rc)

\* faulty variant of is_file: Path.exists instead of Path.is_file
is_file_exists(kind) == kind # "none"

\* Path.is_file of the temporary path
is_file(kind) == kind = "file"

\* os.unlink of the temporary path: what is left there and whether it raised
os_unlink(kind) ==
    IF kind \in {"file", "special"} THEN [left |-> "none", err |-> FALSE]
    ELSE [left |-> kind, err |-> TRUE]

\* the trees a tool can leave at path p
DeliveredAt(p) ==
    IF p = <<>> THEN {t \in Delivered : IsDir(t, <<>>)} ELSE Delivered

----------------------------------------------------------------------------
(* main *)

Init ==
    /\ cmd_name \in CmdNames
    /\ src \in SrcSamples
    /\ arg_dst \in DstSamples
    /\ dst = arg_dst
    /\ tmp_archive = None
    /\ actual_dest = None
    /\ pc = "try"
    /\ exc = NoExc
    /\ exit_code = -1
    /\ tmp = "none"
    /\ fs \in InitialTrees
    /\ fs0 = fs
    /\ path = <<>>
    /\ spill_dir = <<>>
    /\ spill_dst = None
    /\ cls_dst = None
    /\ renames = 0
    /\ merges = 0
    /\ reason = "none"
    /\ cmds = <<>>
    /\ hist = <<>>

\* faulty variant of Prepare: dst is not rebound to the temporary path
Prepare_no_rebind ==
    /\ pc = "try"
    /\ pc' = "classify"
    /\ IF should_extract
       THEN /\ tmp_archive' = TmpPath
            /\ actual_dest' = dst
       ELSE UNCHANGED <<tmp_archive, actual_dest>>
    /\ UNCHANGED <<argvars, dst, exc, exit_code, tmp, fs, spillvars, cls_dst, cmds, hist>>

\* lines 84-87
Prepare ==
    /\ pc = "try"
    /\ pc' = "classify"
    /\ IF should_extract
       THEN /\ tmp_archive' = TmpPath
            /\ dst' = TmpPath
            /\ actual_dest' = dst
       ELSE UNCHANGED <<tmp_archive, dst, actual_dest>>
    /\ UNCHANGED <<argvars, exc, exit_code, tmp, fs, spillvars, cls_dst, cmds, hist>>

\* the command the transport builds and execute_command runs: it exits with
\* rc. With extraction it leaves anything or nothing at the temporary path.
\* Without, a command that exits with 0 has left a tree at dst, unless dst
\* names a remote host; what a failed command leaves at dst is left out, no
\* later step reads it
Transport(tool, kind, form) ==
    /\ pc = "classify"
    /\ cls_dst' = dst
    /\ \E rc \in 0..MaxRc :
          /\ cmds' = Append(cmds, [tool |-> tool, kind |-> kind, form |-> form,
                                   src |-> src, dest |-> dst])
          /\ exc' = execute_command(rc)
          /\ IF dst = tmp_archive
             THEN /\ tmp' \in TmpKinds
                  /\ fs' = fs
             ELSE /\ tmp' = tmp
                  /\ IF rc = 0 /\ ~(tool = "rsync" /\ is_remote_path(dst))
                     THEN fs' \in {Install(fs, PathOf(dst), t) : t \in DeliveredAt(PathOf(dst))}
                     ELSE fs' = fs
          /\ hist' = Append(hist, [ev |-> "transport", rc |-> rc, left |-> tmp'])
          /\ pc' = IF exc'.kind # "none" THEN "finally"
                   ELSE IF should_extract THEN "extract" ELSE "dig"
    /\ UNCHANGED <<argvars, dst, tmp_archive, actual_dest, exit_code, spillvars>>

\* Path(dst).is_dir() in download_http
DstIsDir == IF dst = tmp_archive THEN tmp = "dir" ELSE IsDir(fs, PathOf(dst))

\* lines 89-90 and download_http
DownloadHttp ==
    /\ is_url(src)
    /\ Transport("curl", "http", IF DstIsDir THEN "-OJL --output-dir" ELSE "-L -o")

\* lines 91-92 and copy_remote
CopyRemote ==
    /\ ~is_url(src)
    /\ is_remote_path(src) \/ is_remote_path(dst)
    /\ Transport("rsync", "remote", "-a --info=progress2")

\* faulty variant of CopyLocal: the test of the remote paths is lost
CopyLocal_any ==
    /\ ~is_url(src)
    /\ Transport("rsync", "local", "-a")

\* lines 93-94 and copy_local
CopyLocal ==
    /\ ~is_url(src)
    /\ ~(is_remote_path(src) \/ is_remote_path(dst))
    /\ Transport("rsync", "local", "-a")

\* lines 96-98 and handle_extract lines 48-52: the copied file is not valid
ExtractInvalid ==
    /\ pc = "extract"
    /\ ~is_file(tmp)
    /\ exc' = SystemExit(1)
    /\ pc' = "finally"
    /\ hist' = Append(hist, [ev |-> "precondition", rc |-> 1, left |-> tmp])
    /\ UNCHANGED <<argvars, dst, tmp_archive, actual_dest, exit_code, tmp, fs,
                   spillvars, cls_dst, cmds>>

\* lines 96-99 and handle_extract lines 53-54
ExtractRun ==
    /\ pc = "extract"
    /\ is_file(tmp)
    /\ \E rc \in 0..MaxRc :
          /\ cmds' = Append(cmds, [tool |-> "atool", kind |-> "extract",
                                   form |-> "--extract-to",
                                   src |-> tmp_archive, dest |-> actual_dest])
          /\ exc' = execute_command(rc)
          /\ hist' = Append(hist, [ev |-> "extract", rc |-> rc, left |-> tmp])
          /\ IF exc'.kind = "none"
             THEN /\ fs' \in {Install(fs, PathOf(actual_dest), t)
                                : t \in {u \in Delivered : IsDir(u, <<>>)}}
                  /\ dst' = actual_dest
                  /\ pc' = "dig"
             ELSE /\ fs' = fs
                  /\ dst' = dst
                  /\ pc' = "finally"
    /\ UNCHANGED <<argvars, tmp_archive, actual_dest, exit_code, tmp, spillvars, cls_dst>>

\* line 101, not should_dig
SkipSpill ==
    /\ pc = "dig"
    /\ ~should_dig
    /\ pc' = "finally"
    /\ UNCHANGED <<argvars, dst, tmp_archive, actual_dest, exc, exit_code, tmp, fs,
                   spillvars, cls_dst, cmds, hist>>

\* lines 101-102 and handle_spill lines 57-58
SpillStart ==
    /\ pc = "dig"
    /\ should_dig
    /\ path' = PathOf(dst)
    /\ spill_dir' = Parent(PathOf(dst))
    /\ spill_dst' = dst
    /\ fs0' = fs
    /\ hist' = Append(hist, [ev |-> "spill", rc |-> 0, left |-> tmp])
    /\ pc' = "spill"
    /\ UNCHANGED <<argvars, dst, tmp_archive, actual_dest, exc, exit_code, tmp, fs,
                   renames, merges, reason, cls_dst, cmds>>

\* handle_spill line 59: the loop condition fails
SpillNotDir ==
    /\ pc = "spill"
    /\ ~IsDir(fs, path)
    /\ reason' = "notdir"
    /\ pc' = "finally"
    /\ UNCHANGED <<argvars, dst, tmp_archive, actual_dest, exc, exit_code, tmp, fs,
                   fs0, path, spill_dir, spill_dst, renames, merges, cls_dst, cmds, hist>>

\* handle_spill lines 60-63
SpillMerge ==
    /\ pc = "spill"
    /\ IsDir(fs, path)
    /\ Cardinality(Children(fs, path)) # 1
    /\ \E r \in copytree(fs, path, spill_dir) :
          /\ fs' = r.fs
          /\ reason' = IF r.err THEN "merge_error" ELSE "merged"
          /\ exc' = IF r.err THEN Raised ELSE exc
    /\ merges' = merges + 1
    /\ pc' = "finally"
    /\ UNCHANGED <<argvars, dst, tmp_archive, actual_dest, exit_code, tmp,
                   fs0, path, spill_dir, spill_dst, renames, cls_dst, cmds, hist>>

\* handle_spill lines 60-61 and 64-65
SpillRename ==
    /\ pc = "spill"
    /\ IsDir(fs, path)
    /\ Cardinality(Children(fs, path)) = 1
    /\ LET content == CHOOSE c \in Children(fs, path) : TRUE
           target  == Append(spill_dir, BaseName(content))
           r       == os_rename(fs, content, target)
       IN  IF r.err
           THEN /\ exc' = Raised
                /\ reason' = "rename_error"
                /\ pc' = "finally"
                /\ UNCHANGED <<fs, path, renames>>
           ELSE /\ fs' = r.fs
                /\ path' = target
                /\ renames' = renames + 1
                /\ UNCHANGED <<exc, reason, pc>>
    /\ UNCHANGED <<argvars, dst, tmp_archive, actual_dest, exit_code, tmp,
                   fs0, spill_dir, spill_dst, merges, cls_dst, cmds, hist>>

\* lines 103-105, and the interpreter's exit
Finally ==
    /\ pc = "finally"
    /\ IF tmp_archive # None
       THEN /\ tmp' = os_unlink(tmp).left
            /\ exc' = IF os_unlink(tmp).err THEN Raised ELSE exc
       ELSE UNCHANGED <<tmp, exc>>
    /\ exit_code' = ExitStatus(exc')
    /\ hist' = Append(hist, [ev |-> "cleanup", rc |-> exit_code', left |-> tmp'])
    /\ pc' = "exited"
    /\ UNCHANGED <<argvars, dst, tmp_archive, actual_dest, fs, spillvars, cls_dst, cmds>>

Next ==
    \/ Prepare
    \/ DownloadHttp
    \/ CopyRemote
    \/ CopyLocal
    \/ ExtractInvalid
    \/ ExtractRun
    \/ SkipSpill
    \/ SpillStart
    \/ SpillNotDir
    \/ SpillMerge
    \/ SpillRename
    \/ Finally

Spec == Init /\ [][Next]_vars

----------------------------------------------------------------------------
(* Notions the properties use *)

Exited == pc = "exited"

IsTransport(c) == c.tool \in {"curl", "rsync"}

TransportCmds == {i \in DOMAIN cmds : IsTransport(cmds[i])}

ExtractCmds == {i \in DOMAIN cmds : cmds[i].tool = "atool"}

Events(e) == {i \in DOMAIN hist : hist[i].ev = e}

\* the transport to choose for source s and destination d, by first match
Choice(s, d) ==
    IF is_url(s) THEN "http"
    ELSE IF is_remote_path(s) \/ is_remote_path(d) THEN "remote"
    ELSE "local"

\* the stages in their order
Rank(e) ==
    CASE e = "transport" -> 1
      [] e \in {"precondition", "extract"} -> 2
      [] e = "spill" -> 3
      [] e = "cleanup" -> 4

\* the destination handle_spill was started on
SpillDest == PathOf(spill_dst)

SpillStarted == pc \in {"spill", "finally", "exited"} /\ spill_dst # None

SpillEnded == reason # "none"

\* the end of the chain of single-entry directories that starts at p
RECURSIVE ChainEnd(_, _)
ChainEnd(f, p) ==
    IF IsDir(f, p) /\ Cardinality(Children(f, p)) = 1
    THEN ChainEnd(f, CHOOSE c \in Children(f, p) : TRUE)
    ELSE p

\* the number of single-entry directories of that chain
ChainLen(f, p) == Len(ChainEnd(f, p)) - Len(p)

\* entry e of tree f is found at path q of tree g
SameEntry(f, e, g, q) == Exists(g, q) /\ g[q] = f[e]

----------------------------------------------------------------------------
(* C1 *)

\* C1: in extraction mode, once the process has exited, by whatever path,
\* nothing exists at the temporary archive path
C1_TmpAbsentAfterExit == (Exited /\ should_extract) => tmp = "none"

----------------------------------------------------------------------------
(* C2 *)

\* C2: when the transport command exits with a non-zero code c, the program
\* exits with code c, in both modes, whether the failed transport left a
\* file at the temporary path or nothing
C2_ExitCodeOfTransport ==
    Exited => \A i \in Events("transport") :
                 (hist[i].rc # 0 /\ hist[i].left \in {"none", "file"})
                     => exit_code = hist[i].rc

----------------------------------------------------------------------------
(* C3 *)

\* C3: in extraction mode, when the transport succeeded and the temporary
\* path is not a regular file, atool is never started and the program exits
\* with code 1
C3_PreconditionFailure ==
    (should_extract /\ \E i \in Events("transport") :
                          hist[i].rc = 0 /\ hist[i].left # "file")
        => /\ ExtractCmds = {}
           /\ pc \notin {"dig", "spill"}
           /\ Exited => exit_code = 1

C3_Witness ==
    /\ Exited
    /\ should_extract
    /\ \E i \in Events("transport") : hist[i].rc = 0 /\ hist[i].left = "dir"
    /\ Events("precondition") # {}
    /\ exit_code = 1

----------------------------------------------------------------------------
(* C4 *)

\* C4 as stated: exactly one transport is started, chosen by first match on
\* the source and the destination of the request (DST or its default), in
\* extraction mode too
C4_ChoiceByRequestDst ==
    (pc \notin {"try", "classify"})
        => /\ Cardinality(TransportCmds) = 1
           /\ cmds[1].kind = Choice(src, arg_dst)

\* C4 amended: exactly one transport is started, chosen by first match on
\* the source and the destination handed to the transport, which is DST or
\* its default without extraction and the temporary path with extraction
C4_ChoiceByTransportDst ==
    /\ Cardinality(TransportCmds) <= 1
    /\ (pc \notin {"try", "classify"})
        => /\ TransportCmds = {1}
           /\ cmds[1].dest = (IF should_extract THEN tmp_archive ELSE arg_dst)
           /\ cmds[1].kind = Choice(src, cmds[1].dest)
           /\ cmds[1].tool = (IF cmds[1].kind = "http" THEN "curl" ELSE "rsync")

C4_Witness ==
    /\ should_extract
    /\ ~is_url(src)
    /\ ~is_remote_path(src)
    /\ is_remote_path(arg_dst)
    /\ TransportCmds = {1}
    /\ cmds[1].kind = "local"

----------------------------------------------------------------------------
(* C5 *)

\* C5: the stages run in the order transport, extraction, spill, each at
\* most once; extraction only in extraction mode after a transport that
\* exited 0; spill only in dig mode after success of all earlier stages;
\* after a failure only the cleanup follows and no command is started
C5_StageOrder ==
    /\ \A i, j \in DOMAIN hist : i < j => Rank(hist[i].ev) < Rank(hist[j].ev)
    /\ \A j \in Events("precondition") \cup Events("extract") :
          /\ should_extract
          /\ \E i \in Events("transport") : i < j /\ hist[i].rc = 0
    /\ \A j \in Events("spill") :
          /\ should_dig
          /\ \A i \in 1..(j-1) : hist[i].rc = 0
          /\ Events("transport") # {}
          /\ should_extract => Events("extract") # {}
    /\ \A i \in DOMAIN hist :
          (hist[i].ev # "cleanup" /\ hist[i].rc # 0)
              => \A j \in DOMAIN hist : j > i => hist[j].ev = "cleanup"
    /\ Cardinality(TransportCmds) = Cardinality(Events("transport"))
    /\ Cardinality(ExtractCmds) = Cardinality(Events("extract"))
    /\ \A i \in TransportCmds : \A j \in ExtractCmds : i < j
    /\ reason \in {"rename_error", "merge_error"} => pc \in {"finally", "exited"}
    /\ (Exited /\ (\E i \in DOMAIN hist : hist[i].ev # "cleanup" /\ hist[i].rc # 0))
          => exit_code # 0

C5_Witness ==
    /\ Exited
    /\ should_dig
    /\ \E i \in Events("extract") : hist[i].rc # 0
    /\ Len(hist) = 3
    /\ Len(cmds) = 2

----------------------------------------------------------------------------
(* C6 *)

\* C6: on a destination heading a chain of k single-entry directories that
\* ends in a directory with zero or several entries, handle_spill performs
\* k renames, each to a direct child of the destination's parent, then one
\* merge of the last directory's entries into that parent
C6_RenamesThenMerge ==
    /\ (pc = "spill" /\ renames > 0)
          => /\ Parent(path) = Parent(SpillDest)
             /\ Exists(fs, path)
    /\ (SpillEnded /\ IsDir(fs0, ChainEnd(fs0, SpillDest)))
          => /\ renames = ChainLen(fs0, SpillDest)
             /\ merges = 1
             /\ \A e \in Children(fs0, ChainEnd(fs0, SpillDest)) :
                   SameEntry(fs0, e, fs, Append(Parent(SpillDest), BaseName(e)))

----------------------------------------------------------------------------
(* C7 *)

\* C7: after handle_spill completes on a destination D that wraps a chain
\* of single-entry directories, the innermost content (the entries of the
\* directory the chain ends in, or the file it ends in) is directly in D
C7_ContentAtDestination ==
    (reason \in {"notdir", "merged"} /\ ChainLen(fs0, SpillDest) >= 1)
        => LET end == ChainEnd(fs0, SpillDest)
           IN  IF IsDir(fs0, end)
               THEN \A e \in Children(fs0, end) :
                       SameEntry(fs0, e, fs, Append(SpillDest, BaseName(e)))
               ELSE SameEntry(fs0, end, fs, Append(SpillDest, BaseName(end)))

----------------------------------------------------------------------------
(* C8 *)

\* what both versions of C8 say of the transport, the classification and
\* the extraction
C8_Common ==
    /\ should_extract =>
          /\ \A i \in TransportCmds :
                cmds[i].dest = tmp_archive /\ cmds[i].dest # arg_dst
          /\ cls_dst \in {None, tmp_archive}
          /\ cls_dst # arg_dst
          /\ \A i \in ExtractCmds :
                cmds[i].dest = arg_dst /\ cmds[i].src = tmp_archive
    /\ ~should_extract =>
          /\ tmp_archive = None
          /\ tmp = "none"
          /\ ExtractCmds = {}
          /\ \A i \in TransportCmds : cmds[i].dest = arg_dst

\* C8 as stated: with extraction the transport gets the temporary path and
\* only the extraction uses the real destination, neither classification,
\* transport nor spill; without extraction no temporary path exists and the
\* transport gets the real destination
C8_RealDestOnlyExtraction ==
    /\ C8_Common
    /\ should_extract => spill_dst # arg_dst

\* C8 amended: with extraction the transport gets the temporary path, and
\* the real destination is used by the extraction and, in dig mode, by the
\* spill that follows it, but neither by classification nor by transport;
\* without extraction no temporary path exists and the transport gets the
\* real destination
C8_RealDestExtractionAndSpill ==
    /\ C8_Common
    /\ (should_extract /\ spill_dst # None)
          => /\ spill_dst = arg_dst
             /\ should_dig
             /\ \E i \in Events("extract") : hist[i].rc = 0

C8_Witness ==
    /\ Exited
    /\ should_extract
    /\ cmds[1].dest = TmpPath
    /\ Len(cmds) = 2
    /\ cmds[2].dest = arg_dst
    /\ spill_dst = arg_dst
    /\ reason = "merged"

----------------------------------------------------------------------------
(* C9 *)

\* C9: the loop of handle_spill ends because the current path is not a
\* directory or because a directory with zero or several entries was
\* merged, and from the second iteration on the current path is a direct
\* child of the original destination's parent
C9_LoopEnds ==
    /\ SpillEnded => reason \in {"notdir", "merged", "merge_error"}
    /\ (pc = "spill" /\ renames > 0)
          => /\ Parent(path) = Parent(SpillDest)
             /\ spill_dir = Parent(SpillDest)

----------------------------------------------------------------------------
(* C10 *)

\* C10: every entry the destination's parent held before the spill, other
\* than the destination, keeps its content through the renames and the
\* merge, unless the merge copied an entry of the same name over it; a
\* rename neither replaces nor fails on such an entry
C10_ParentEntriesKept ==
    SpillStarted =>
        \A p \in DOMAIN fs0 :
            (Under(p, spill_dir) /\ p # spill_dir /\ ~Under(p, SpillDest))
                => \/ SameEntry(fs0, p, fs, p)
                   \/ /\ merges = 1
                      /\ \E e \in Children(fs, path) :
                            BaseName(e) = p[Len(spill_dir) + 1]

====
